---------------------------- MODULE Spec2Model ----------------------------
(* A state-machine model of src/geothermal_analysis.py: the module-level   *)
(* creation of ./results, the driver generate_all_visualizations and the   *)
(* six chart operations with the statistics each one derives from its      *)
(* embedded data table.                                                    *)
(*                                                                         *)
(* Units.  Python floats with one decimal in the source are kept as        *)
(* integers in tenths (installed_capacity_gw, capacity_factors); ratios    *)
(* are kept as exact fractions [num, den]; the two formatted labels are    *)
(* kept as the integer the format prints (hundredths of a percent for      *)
(* '.2f', tenths for '.1f').                                               *)
EXTENDS Integers, Sequences, FiniteSets

(***************************************************************************)
(* Bounds of the model                                                     *)
(***************************************************************************)
\* number of executions of the script that are explored
MaxRuns == 2

(***************************************************************************)
(* Generic helpers                                                         *)
(***************************************************************************)
RECURSIVE SumSeq(_)
SumSeq(s) == IF s = <<>> THEN 0 ELSE Head(s) + SumSeq(Tail(s))

Max(a, b) == IF a >= b THEN a ELSE b

Range(s) == {s[i] : i \in DOMAIN s}

\* Python's len()
len(s) == Len(s)

(***************************************************************************)
(* Exact arithmetic on naturals of arbitrary size, little-endian limbs.    *)
(* It stands for the float64 power of line 72, whose rounding error        *)
(* (about 1e-16) is far below the distance of the result to the nearest    *)
(* rounding boundary of the '.2f' format.                                  *)
(***************************************************************************)
Base == 10000

RECURSIVE BigMulFrom(_, _, _)
BigMulFrom(a, m, carry) ==
    IF a = <<>>
    THEN IF carry = 0 THEN <<>>
         ELSE <<carry % Base>> \o BigMulFrom(<<>>, m, carry \div Base)
    ELSE LET t == Head(a) * m + carry
         IN  <<t % Base>> \o BigMulFrom(Tail(a), m, t \div Base)

\* a * m for a big natural a and a small positive integer m
BigMulSmall(a, m) == BigMulFrom(a, m, 0)

RECURSIVE BigPow(_, _)
BigPow(m, n) == IF n = 0 THEN <<1>> ELSE BigMulSmall(BigPow(m, n - 1), m)

RECURSIVE BigCmp(_, _)
BigCmp(a, b) ==
    IF Len(a) # Len(b) THEN (IF Len(a) < Len(b) THEN -1 ELSE 1)
    ELSE IF a = <<>> THEN 0
    ELSE LET n == Len(a)
         IN  IF a[n] # b[n] THEN (IF a[n] < b[n] THEN -1 ELSE 1)
             ELSE BigCmp(SubSeq(a, 1, n - 1), SubSeq(b, 1, n - 1))

(***************************************************************************)
(* plot_geothermal_capacity_trend: data and growth rate                    *)
(***************************************************************************)
years_capacity == [i \in 1..16 |-> 2004 + i]

capacity_mw == <<8686, 8918, 9139, 9459, 9899, 10121, 10011, 10471,
                 10740, 11221, 11846, 12706, 13299, 13928, 14600, 15406>>

\* the points annotated with their value (0-based 0, 5, 10, 15 in the source)
AnnotatedPoints == {1, 6, 11, 16}

\* a mutation of Periods: the exponent taken over the number of points
PeriodsOffByOne(n) == n

\* the exponent's denominator of line 72: len(years) - 1
Periods(n) == n - 1

\* TRUE iff first * (1 + (b + 1/2)/10^4)^p <= last, i.e. the growth rate in
\* hundredths of a percent is at least b + 1/2, so '.2f' prints more than b
RateAbove(first, last, p, b) ==
    BigCmp(BigMulSmall(BigPow(20000 + 2 * b + 1, p), first),
           BigMulSmall(BigPow(20000, p), last)) <= 0

RECURSIVE RateSearch(_, _, _, _, _)
RateSearch(first, last, p, lo, hi) ==
    IF lo >= hi THEN lo
    ELSE LET mid == (lo + hi) \div 2
         IN  IF RateAbove(first, last, p, mid)
             THEN RateSearch(first, last, p, mid + 1, hi)
             ELSE RateSearch(first, last, p, lo, mid)

\* search range of the printed rate, hundredths of a percent (-99.99%..100%)
MinRate == -9999
MaxRate == 10000

\* cagr = (last/first)**(1/(n-1)) - 1, as printed by f'{cagr*100:.2f}':
\* the integer number of hundredths of a percent nearest to cagr*100
CagrLabel(first, last, n) == RateSearch(first, last, Periods(n), MinRate, MaxRate)

\* line 72 on the embedded data
cagr == CagrLabel(capacity_mw[1], capacity_mw[len(capacity_mw)],
                  len(years_capacity))

(***************************************************************************)
(* plot_technology_comparison: data and bar colours                        *)
(***************************************************************************)
technologies == <<"Solar PV", "Wind Onshore", "Wind Offshore",
                  "Hydropower", "Geothermal", "Biomass">>

\* tenths of a percent
capacity_factors == <<243, 356, 435, 442, 831, 752>>

lcoe_values == <<57, 39, 84, 47, 71, 85>>

HighlightColor == "#d62728"
OtherColor == "#1f77b4"

\* a mutation of IsHighlighted: the label compared in lower case
IsHighlightedLower(tech) == tech = "geothermal"

\* the test of lines 105 and 118
IsHighlighted(tech) == tech = "Geothermal"

\* the face colours set by the loops of lines 104-108 and 117-121
BarColors(techs) ==
    [i \in DOMAIN techs |-> IF IsHighlighted(techs[i]) THEN HighlightColor
                            ELSE OtherColor]

(***************************************************************************)
(* plot_top_geothermal_countries: data and reference lines                 *)
(***************************************************************************)
countries == <<"United States", "Indonesia", "Philippines", "Turkey",
               "New Zealand", "Italy", "Iceland", "Kenya", "Mexico", "Japan">>

generation_gwh == <<18000, 14600, 10730, 8900, 8200, 6100, 6000, 5500, 5400, 2900>>

installed_mw == <<2600, 2100, 1900, 1500, 1000, 900, 750, 800, 950, 550>>

\* a mutation of np_mean: the sum divided by count - 1
np_mean_sample(s) == [num |-> SumSeq(s), den |-> len(s) - 1]

\* np.mean of a sequence of integers, as an exact fraction
np_mean(s) == [num |-> SumSeq(s), den |-> len(s)]

\* the y positions of the two axhline calls (lines 148 and 159)
ReferenceLines == <<np_mean(generation_gwh), np_mean(installed_mw)>>

(***************************************************************************)
(* plot_orc_efficiency_comparison: data                                    *)
(***************************************************************************)
temperature_range == [i \in 1..12 |-> 70 + 10 * i]

\* slope and intercept of the four curves, thousandths of a percent
FluidBase == <<4500, 5000, 5200, 5100>>
FluidSlope == <<80, 90, 100, 95>>

\* one standard deviation of the noise, thousandths of a percent
NoiseStep == 300

\* np.random.normal(0, 0.3, ...): the draw added to one curve, represented
\* by an offset of one standard deviation below or above the mean
Noise == {0 - NoiseStep, NoiseStep}

\* the four plotted curves for a draw nz (one offset per fluid)
Efficiency(nz) ==
    [f \in 1..4 |-> [i \in 1..12 |->
        FluidBase[f] + FluidSlope[f] * (temperature_range[i] - 80) + nz[f]]]

(***************************************************************************)
(* plot_investment_trends: data and average investment per MW              *)
(***************************************************************************)
years_investment == [i \in 1..11 |-> 2009 + i]

\* million USD
investment == <<1600, 2900, 1700, 2200, 2800, 2000, 2400,
                3100, 2300, 1800, 2500>>

cumulative_capacity == <<10121, 10011, 10471, 10740, 11221, 11846,
                         12706, 13299, 13928, 14600, 15406>>

new_capacity == <<222, -110, 460, 269, 481, 625, 860, 593, 629, 672, 806>>

\* a mutation of Denominator: the floor of the denominator set to 0
DenominatorFloorZero(cap) == Max(cap, 0)

\* the denominator of line 253: max(cap, 1)
Denominator(cap) == Max(cap, 1)

\* inv_per_mw of line 253, zip(investment, new_capacity), as fractions
InvPerMw(inv, cap) ==
    [i \in 1..(IF len(inv) <= len(cap) THEN len(inv) ELSE len(cap)) |->
        [num |-> inv[i], den |-> Denominator(cap[i])]]

\* the entries kept by the filter 'if i > 0' of line 254
AveragedEntries(ratios) ==
    {i \in DOMAIN ratios : ratios[i].num * ratios[i].den > 0}

\* resolution of the fixed-point stand-in for the float64 ratios: 1/Scale
Scale == 10000

RECURSIVE ScaledSum(_, _)
ScaledSum(ratios, idx) ==
    IF idx = {} THEN 0
    ELSE LET i == CHOOSE j \in idx : TRUE
         IN  (ratios[i].num * Scale) \div ratios[i].den
             + ScaledSum(ratios, idx \ {i})

\* np.mean over the entries idx, as printed by f'{avg_inv_per_mw:.1f}':
\* the number of tenths nearest to the mean
MeanLabel(ratios, idx) ==
    IF idx = {} THEN 0
    ELSE ((ScaledSum(ratios, idx) \div Cardinality(idx)) + Scale \div 20)
            \div (Scale \div 10)

\* line 253 on the embedded data
inv_per_mw == InvPerMw(investment, new_capacity)

\* line 254 on the embedded data
avg_inv_per_mw == MeanLabel(inv_per_mw, AveragedEntries(inv_per_mw))

(***************************************************************************)
(* plot_geothermal_potential_map: data, utilization and sort               *)
(***************************************************************************)
regions == <<"North America", "Central America", "South America",
             "Europe", "Africa", "Middle East", "Central Asia",
             "East Asia", "Southeast Asia", "Oceania">>

potential_capacity_gw == <<35, 6, 12, 18, 15, 2, 8, 27, 30, 9>>

\* tenths of a GW
installed_capacity_gw == <<32, 7, 9, 33, 7, 1, 1, 38, 48, 14>>

\* i/p*100 of line 277 for i given in tenths, as an exact fraction
Utilization(i, p) == [num |-> i * 100, den |-> p * 10]

\* the DataFrame of lines 280-285, one record per row
DataFrame ==
    [r \in 1..len(regions) |->
        [Region      |-> regions[r],
         Potential   |-> potential_capacity_gw[r],
         Installed   |-> installed_capacity_gw[r],
         Utilization |-> Utilization(installed_capacity_gw[r],
                                     potential_capacity_gw[r])]]

\* row a is placed before row b
Before(a, b, ascending) ==
    IF ascending THEN a.Potential <= b.Potential
    ELSE a.Potential >= b.Potential

RECURSIVE InsertRow(_, _, _)
InsertRow(row, rows, ascending) ==
    IF rows = <<>> THEN <<row>>
    ELSE IF Before(row, Head(rows), ascending) THEN <<row>> \o rows
    ELSE <<Head(rows)>> \o InsertRow(row, Tail(rows), ascending)

\* DataFrame.sort_values('Potential (GW)', ascending=...): whole rows are
\* reordered by the key column
RECURSIVE sort_values(_, _)
sort_values(rows, ascending) ==
    IF rows = <<>> THEN <<>>
    ELSE InsertRow(Head(rows), sort_values(Tail(rows), ascending), ascending)

\* a mutation of SortedFrame: the default ascending order
SortedFrameAscending(rows) == sort_values(rows, TRUE)

\* line 287
SortedFrame(rows) == sort_values(rows, FALSE)

\* df after line 287 on the embedded data
df_sorted == SortedFrame(DataFrame)

(***************************************************************************)
(* Output files and the driver                                             *)
(***************************************************************************)
\* a mutation of ChartFile: the second chart saved under the first name
ChartFileReused(k) ==
    <<"geothermal_capacity_trend.png",
      "geothermal_capacity_trend.png",
      "top_geothermal_countries.png",
      "orc_working_fluid_comparison.png",
      "geothermal_investment_trends.png",
      "geothermal_potential_by_region.png">>[k]

\* the name chart k passes to plt.savefig, relative to ./results
ChartFile(k) ==
    <<"geothermal_capacity_trend.png",
      "renewable_technology_comparison.png",
      "top_geothermal_countries.png",
      "orc_working_fluid_comparison.png",
      "geothermal_investment_trends.png",
      "geothermal_potential_by_region.png">>[k]

Charts == 1..6

\* a file of ./results that no chart operation writes
OtherFile == "other.dat"

\* the names a file of ./results can have in the model
Names == {ChartFile(k) : k \in Charts} \cup {OtherFile}

HeaderLine == "Generating geothermal energy visualizations..."

DoneLine(k) ==
    <<"Generated capacity trend visualization",
      "Generated technology comparison visualization",
      "Generated top countries visualization",
      "Generated ORC efficiency comparison",
      "Generated investment trends visualization",
      "Generated geothermal potential map">>[k]

SummaryLine == "All visualizations have been saved to the 'results' directory."

CallStmt(k) == [op |-> "call", chart |-> k, text |-> ""]
EmitStmt(k, t) == [op |-> "print", chart |-> k, text |-> t]

\* a mutation of Driver: the completion line of the fifth chart printed
\* before the chart operation is invoked
DriverEarlyEmit ==
    <<EmitStmt(0, HeaderLine),
      CallStmt(1), EmitStmt(1, DoneLine(1)),
      CallStmt(2), EmitStmt(2, DoneLine(2)),
      CallStmt(3), EmitStmt(3, DoneLine(3)),
      CallStmt(4), EmitStmt(4, DoneLine(4)),
      EmitStmt(5, DoneLine(5)), CallStmt(5),
      CallStmt(6), EmitStmt(6, DoneLine(6)),
      EmitStmt(7, SummaryLine)>>

\* the statements of generate_all_visualizations, in program order
Driver ==
    <<EmitStmt(0, HeaderLine),
      CallStmt(1), EmitStmt(1, DoneLine(1)),
      CallStmt(2), EmitStmt(2, DoneLine(2)),
      CallStmt(3), EmitStmt(3, DoneLine(3)),
      CallStmt(4), EmitStmt(4, DoneLine(4)),
      CallStmt(5), EmitStmt(5, DoneLine(5)),
      CallStmt(6), EmitStmt(6, DoneLine(6)),
      EmitStmt(7, SummaryLine)>>

\* stamp of a name that is not in ./results
Absent == 0
\* stamp of a file that was in ./results before the first execution
Old == 1
\* stamp of a file written by execution r
Stamp(r) == r + 1

\* a mutation of SaveFig: an existing file is kept
SaveFigKeep(fs, name, stamp) ==
    IF fs[name] # Absent THEN fs ELSE [fs EXCEPT ![name] = stamp]

\* plt.savefig: the file is created or replaced
SaveFig(fs, name, stamp) == [fs EXCEPT ![name] = stamp]

\* a mutation of AfterFault: the exception is swallowed and the driver
\* continues with its next statement
AfterFaultSwallowed(p) == [status |-> "running", pc |-> p + 1]

\* an exception raised at statement p is not caught anywhere: the
\* interpreter terminates
AfterFault(p) == [status |-> "crashed", pc |-> p]

(***************************************************************************)
(* State                                                                   *)
(***************************************************************************)
VARIABLES
    node,        \* what ./results is: "absent", "dir" or "file"
    files,       \* stamp of every name inside ./results
    initNames,   \* the names in ./results before the first execution
    run,         \* number of the current execution of the script
    status,      \* "running", "done" or "crashed"
    pc,          \* 0: at line 26; i in DOMAIN Driver: before statement i
    console,     \* lines printed by the current execution
    started,     \* chart operations invoked by the current execution
    faultAt,     \* -1: no fault; 0: line 26 raised; k: chart k raised
    faultKind,   \* the exception raised, "none" if none
    cagr_label,  \* chart 1: the printed CAGR, hundredths of a percent
    bar_colors,  \* chart 2: face colours of the bars of ax1 and ax2
    ref_lines,   \* chart 3: y of the reference lines of ax1 and ax2
    efficiency,  \* chart 4: the four plotted curves
    avg_entries, \* chart 5: the entries that enter the average
    avg_label,   \* chart 5: the printed average, tenths of M USD per MW
    df           \* chart 6: the rows of the sorted DataFrame

fsVars == <<node, files, initNames>>
ctlVars == <<run, status, pc, console, started, faultAt, faultKind>>
chartVars == <<cagr_label, bar_colors, ref_lines, efficiency,
               avg_entries, avg_label, df>>
vars == <<fsVars, ctlVars, chartVars>>

\* nothing has been drawn yet
NoCharts ==
    /\ cagr_label = 0
    /\ bar_colors = <<>>
    /\ ref_lines = <<>>
    /\ efficiency = <<>>
    /\ avg_entries = {}
    /\ avg_label = 0
    /\ df = <<>>

Init ==
    /\ node \in {"absent", "dir", "file"}
    /\ files \in [Names -> {Absent, Old}]
    /\ node # "dir" => \A n \in Names : files[n] = Absent
    /\ initNames = {n \in Names : files[n] # Absent}
    /\ run = 1
    /\ status = "running"
    /\ pc = 0
    /\ console = <<>>
    /\ started = <<>>
    /\ faultAt = -1
    /\ faultKind = "none"
    /\ NoCharts

(***************************************************************************)
(* Actions                                                                 *)
(***************************************************************************)
\* statement pc raises: chart k (0 for line 26) fails with exception kind
Raise(k, kind) ==
    /\ status' = AfterFault(pc).status
    /\ pc' = AfterFault(pc).pc
    /\ faultAt' = k
    /\ faultKind' = kind

\* line 26: Path("./results").mkdir(exist_ok=True)
Mkdir ==
    /\ status = "running"
    /\ pc = 0
    /\ \E ok \in BOOLEAN :
          IF node = "dir" \/ (node = "absent" /\ ok)
          THEN /\ node' = "dir"
               /\ pc' = 1
               /\ UNCHANGED <<status, faultAt, faultKind>>
          ELSE /\ Raise(0, IF node = "file" THEN "FileExistsError"
                           ELSE "OSError")
               /\ UNCHANGED node
    /\ UNCHANGED <<files, initNames, run, console, started, chartVars>>

\* a print statement of generate_all_visualizations
EmitLine ==
    /\ status = "running"
    /\ pc \in DOMAIN Driver
    /\ Driver[pc].op = "print"
    /\ console' = Append(console, Driver[pc].text)
    /\ pc' = pc + 1
    /\ status' = IF pc = len(Driver) THEN "done" ELSE status
    /\ UNCHANGED <<fsVars, run, started, faultAt, faultKind, chartVars>>

\* the call of chart operation k: it computes, draws with the effect
\* render on the chart variables, and saves; zero is TRUE iff a division
\* of the computation has a zero denominator
PlotStep(k, zero, render) ==
    /\ status = "running"
    /\ pc \in DOMAIN Driver
    /\ Driver[pc] = CallStmt(k)
    /\ started' = Append(started, k)
    /\ \E ok \in (IF node = "dir" THEN BOOLEAN ELSE {FALSE}) :
          IF zero
          THEN /\ Raise(k, "ZeroDivisionError")
               /\ UNCHANGED <<files, chartVars>>
          ELSE IF ok
          THEN /\ render
               /\ files' = SaveFig(files, ChartFile(k), Stamp(run))
               /\ pc' = pc + 1
               /\ UNCHANGED <<status, faultAt, faultKind>>
          ELSE /\ Raise(k, "OSError")
               /\ UNCHANGED <<files, chartVars>>
    /\ UNCHANGED <<node, initNames, run, console>>

plot_geothermal_capacity_trend ==
    PlotStep(1, capacity_mw[1] = 0,
             /\ cagr_label' = cagr
             /\ UNCHANGED <<bar_colors, ref_lines, efficiency,
                            avg_entries, avg_label, df>>)

plot_technology_comparison ==
    PlotStep(2, FALSE,
             /\ bar_colors' = <<BarColors(technologies), BarColors(technologies)>>
             /\ UNCHANGED <<cagr_label, ref_lines, efficiency,
                            avg_entries, avg_label, df>>)

plot_top_geothermal_countries ==
    PlotStep(3, FALSE,
             /\ ref_lines' = ReferenceLines
             /\ UNCHANGED <<cagr_label, bar_colors, efficiency,
                            avg_entries, avg_label, df>>)

plot_orc_efficiency_comparison ==
    \E nz \in [1..4 -> Noise] :
        PlotStep(4, FALSE,
                 /\ efficiency' = Efficiency(nz)
                 /\ UNCHANGED <<cagr_label, bar_colors, ref_lines,
                                avg_entries, avg_label, df>>)

plot_investment_trends ==
    PlotStep(5, \E i \in DOMAIN inv_per_mw : inv_per_mw[i].den = 0,
             /\ avg_entries' = AveragedEntries(inv_per_mw)
             /\ avg_label' = avg_inv_per_mw
             /\ UNCHANGED <<cagr_label, bar_colors, ref_lines,
                            efficiency, df>>)

plot_geothermal_potential_map ==
    PlotStep(6, \E r \in DOMAIN potential_capacity_gw :
                    potential_capacity_gw[r] = 0,
             /\ df' = df_sorted
             /\ UNCHANGED <<cagr_label, bar_colors, ref_lines, efficiency,
                            avg_entries, avg_label>>)

\* the script is executed again, in a new process, on the same directory
Rerun ==
    /\ status \in {"done", "crashed"}
    /\ run < MaxRuns
    /\ run' = run + 1
    /\ status' = "running"
    /\ pc' = 0
    /\ console' = <<>>
    /\ started' = <<>>
    /\ faultAt' = -1
    /\ faultKind' = "none"
    /\ cagr_label' = 0
    /\ bar_colors' = <<>>
    /\ ref_lines' = <<>>
    /\ efficiency' = <<>>
    /\ avg_entries' = {}
    /\ avg_label' = 0
    /\ df' = <<>>
    /\ UNCHANGED fsVars

Next ==
    \/ Mkdir
    \/ EmitLine
    \/ plot_geothermal_capacity_trend
    \/ plot_technology_comparison
    \/ plot_top_geothermal_countries
    \/ plot_orc_efficiency_comparison
    \/ plot_investment_trends
    \/ plot_geothermal_potential_map
    \/ Rerun

Spec == Init /\ [][Next]_vars

(***************************************************************************)
(* Properties                                                              *)
(***************************************************************************)
\* chart k's file was written by the current execution
WrittenNow(k) == files[ChartFile(k)] = Stamp(run)

ChartNames == {ChartFile(k) : k \in Charts}

\* the names present in ./results
NamesInDir == {n \in Names : files[n] # Absent}

\* the names some execution of the script has written
NamesWritten == {n \in Names : files[n] \notin {Absent, Old}}

\* what a completed execution prints
ExpectedConsole ==
    <<HeaderLine, DoneLine(1), DoneLine(2), DoneLine(3), DoneLine(4),
      DoneLine(5), DoneLine(6), SummaryLine>>

IsPrefix(s, t) == Len(s) <= Len(t) /\ s = SubSeq(t, 1, Len(s))

\* the printed average when every entry of inv_per_mw is averaged
AverageOfAll == MeanLabel(inv_per_mw, DOMAIN inv_per_mw)

\* C1 (as claimed): once the investment chart is drawn, the average was
\* taken over exactly the entries with strictly positive new capacity, which
\* are 10 of the 11 and do not include the 2011 entry, and it differs from
\* the average of all 11 ratios.
C1_AverageOverPositiveCapacity ==
    WrittenNow(5) =>
        /\ avg_entries = {i \in DOMAIN new_capacity : new_capacity[i] > 0}
        /\ Cardinality(avg_entries) = 10
        /\ 2 \notin avg_entries
        /\ avg_label # AverageOfAll

\* C2: a completed execution has written six files with six distinct names
\* into ./results; whatever ran before, the names ever written are those
\* six and the directory holds its initial names plus those six, so that a
\* directory that started empty holds exactly the six.
C2_SixDistinctFiles ==
    status = "done" =>
        /\ node = "dir"
        /\ Cardinality(ChartNames) = 6
        /\ \A k \in Charts : WrittenNow(k)
        /\ NamesWritten = ChartNames
        /\ NamesInDir = initNames \cup ChartNames
        /\ (initNames = {} => Cardinality(NamesInDir) = 6)

\* C2 witness: a second execution has completed on a directory that was
\* empty before the first one.
C2_Witness ==
    /\ status = "done"
    /\ run = 2
    /\ initNames = {}
    /\ NamesInDir = ChartNames

\* C3: the chart operations are invoked in the order 1..6; the completion
\* line of chart k is printed only after chart k's file is written and
\* before chart k+1 is invoked; the summary comes after all six completion
\* lines; a completed execution has invoked all six and printed exactly the
\* header, one completion line per chart and the summary.
C3_DriverOrder ==
    /\ started = [i \in 1..Len(started) |-> i]
    /\ Len(started) <= 6
    /\ IsPrefix(console, ExpectedConsole)
    /\ \A k \in Charts :
          DoneLine(k) \in Range(console) => WrittenNow(k) /\ k \in Range(started)
    /\ \A k \in 1..5 :
          (k + 1) \in Range(started) => DoneLine(k) \in Range(console)
    /\ SummaryLine \in Range(console) =>
          \A k \in Charts : DoneLine(k) \in Range(console)
    /\ status = "done" =>
          /\ console = ExpectedConsole
          /\ started = <<1, 2, 3, 4, 5, 6>>

\* C3 witness: an execution has completed and printed the summary.
C3_Witness ==
    /\ status = "done"
    /\ console # <<>>
    /\ console[Len(console)] = SummaryLine
    /\ Len(started) = 6

\* C4 (as claimed): once the capacity chart is drawn, the printed growth
\* rate is 3.83%.
C4_LabelIs383 ==
    WrittenNow(1) => cagr_label = 383

\* 1.03885^15 <= 15406/8686 < 1.03895^15
RateBracket389 ==
    /\ RateAbove(8686, 15406, 15, 388)
    /\ ~RateAbove(8686, 15406, 15, 389)

\* C4 (amended): the growth rate is taken between first = 8686 and
\* last = 15406 over n - 1 = 15 periods, and the printed rate is 3.89%:
\* 1.03885^15 <= 15406/8686 < 1.03895^15.
C4_LabelIs389 ==
    WrittenNow(1) =>
        /\ capacity_mw[1] = 8686
        /\ capacity_mw[len(capacity_mw)] = 15406
        /\ len(years_capacity) = 16
        /\ cagr_label = 389
        /\ RateBracket389

\* C4 witness: the capacity chart has been drawn with a positive rate.
C4_Witness ==
    /\ WrittenNow(1)
    /\ cagr_label > 0

\* the row the DataFrame is built with for region i
RowOf(i) ==
    [Region      |-> regions[i],
     Potential   |-> potential_capacity_gw[i],
     Installed   |-> installed_capacity_gw[i],
     Utilization |-> [num |-> installed_capacity_gw[i] * 100,
                      den |-> potential_capacity_gw[i] * 10]]

\* C5: once the potential chart is drawn, the rows are a permutation of the
\* ten regions, every row carries the potential, installed capacity and
\* utilization of its own region, potentials do not increase down the rows,
\* the first row is North America (35) and the last is Middle East (2).
C5_SortedByPotential ==
    WrittenNow(6) =>
        /\ Len(df) = 10
        /\ \A i \in DOMAIN regions :
              Cardinality({r \in DOMAIN df : df[r] = RowOf(i)}) = 1
        /\ \A r \in DOMAIN df : \E i \in DOMAIN regions : df[r] = RowOf(i)
        /\ \A r \in 1..(Len(df) - 1) : df[r].Potential >= df[r + 1].Potential
        /\ df[1].Region = "North America"
        /\ df[1].Potential = 35
        /\ df[10].Region = "Middle East"
        /\ df[10].Potential = 2

\* C5 witness: the potential chart has been drawn and the sort has moved
\* rows (the second row is not the second input region).
C5_Witness ==
    /\ WrittenNow(6)
    /\ Len(df) = 10
    /\ df[2].Region # regions[2]

\* C6: once the technology chart is drawn, in each of the two bar charts
\* the highlight colour is on exactly the bar of the entry labelled
\* "Geothermal" (the fifth), every other of the six bars has the other
\* colour, and the two charts agree.
C6_OneHighlightedBar ==
    WrittenNow(2) =>
        /\ Len(bar_colors) = 2
        /\ HighlightColor # OtherColor
        /\ \A c \in 1..2 :
              /\ Len(bar_colors[c]) = 6
              /\ {i \in 1..6 : bar_colors[c][i] = HighlightColor}
                    = {i \in 1..6 : technologies[i] = "Geothermal"}
              /\ {i \in 1..6 : bar_colors[c][i] = HighlightColor} = {5}
              /\ \A i \in (1..6) \ {5} : bar_colors[c][i] = OtherColor
        /\ bar_colors[1] = bar_colors[2]

\* C6 witness: the technology chart has been drawn with a highlighted and
\* a non-highlighted bar.
C6_Witness ==
    /\ WrittenNow(2)
    /\ Len(bar_colors) = 2
    /\ HighlightColor \in Range(bar_colors[1])
    /\ OtherColor \in Range(bar_colors[1])

\* C7: once the countries chart is drawn, each reference line is at the
\* sum of its own series divided by its count; for generation that is
\* 86330 / 10, which is exactly 8633.
C7_ReferenceLinesAtMean ==
    WrittenNow(3) =>
        /\ Len(ref_lines) = 2
        /\ ref_lines[1] = [num |-> 86330, den |-> 10]
        /\ ref_lines[1].num = 8633 * ref_lines[1].den
        /\ ref_lines[1].num = SumSeq(generation_gwh)
        /\ ref_lines[1].den = Len(generation_gwh)
        /\ ref_lines[2].num = SumSeq(installed_mw)
        /\ ref_lines[2].den = Len(installed_mw)

\* C7 witness: the countries chart has been drawn with two different
\* reference lines.
C7_Witness ==
    /\ WrittenNow(3)
    /\ Len(ref_lines) = 2
    /\ ref_lines[1] # ref_lines[2]

\* C8: a chart file written by the current execution implies that line 26
\* has completed and ./results is a directory; line 26 on an existing
\* directory does not raise and leaves the directory and its files as they
\* are; a chart operation that completes leaves its file with the content
\* of the current execution, whatever was there, and no other file changed.
C8_EnsureThenOverwrite ==
    /\ [](\A k \in Charts : WrittenNow(k) => pc >= 1 /\ node = "dir")
    /\ [][(pc = 0 /\ status = "running" /\ node = "dir") =>
              /\ status' = "running"
              /\ pc' = 1
              /\ node' = "dir"
              /\ files' = files]_vars
    /\ [][\A k \in Charts :
              (started' = Append(started, k) /\ pc' = pc + 1) =>
                  files' = [files EXCEPT ![ChartFile(k)] = Stamp(run)]]_vars

\* C8 witness: the second execution has replaced a chart file that was in
\* the directory before the first execution, next to an untouched file.
C8_Witness ==
    /\ run = 2
    /\ node = "dir"
    /\ ChartFile(1) \in initNames
    /\ WrittenNow(1)
    /\ files[OtherFile] = Old

\* C9: when chart operation k has failed with an environment fault, the
\* execution is terminated: no completion line of chart k, no later chart
\* invoked, no file of a later chart written by this execution, no summary
\* line, and the files of the charts before k are those this execution
\* wrote.
C9_FaultTerminatesRun ==
    \A k \in Charts :
        (faultAt = k /\ faultKind = "OSError") =>
            /\ status = "crashed"
            /\ DoneLine(k) \notin Range(console)
            /\ \A j \in Charts : j > k =>
                  /\ j \notin Range(started)
                  /\ ~WrittenNow(j)
                  /\ DoneLine(j) \notin Range(console)
            /\ SummaryLine \notin Range(console)
            /\ \A j \in Charts : j < k => WrittenNow(j)

\* C9 witness: the third chart operation has failed after the first two
\* wrote their files.
C9_Witness ==
    /\ faultAt = 3
    /\ faultKind = "OSError"
    /\ status = "crashed"
    /\ WrittenNow(1)
    /\ WrittenNow(2)

\* C10: no chart operation raises a division by zero: the first capacity
\* value and every potential are non-zero and every denominator of the
\* investment-per-MW ratios is at least 1; every utilization drawn is
\* strictly between 0 and 100 percent.
C10_NoDivisionByZero ==
    /\ faultKind # "ZeroDivisionError"
    /\ capacity_mw[1] # 0
    /\ \A r \in DOMAIN potential_capacity_gw : potential_capacity_gw[r] # 0
    /\ \A i \in DOMAIN new_capacity :
          inv_per_mw[i].den >= 1
    /\ WrittenNow(6) =>
          /\ df # <<>>
          /\ \A r \in DOMAIN df :
                /\ df[r].Utilization.den > 0
                /\ df[r].Utilization.num > 0
                /\ df[r].Utilization.num < 100 * df[r].Utilization.den

\* C10 witness: an execution has completed, so every division was made.
C10_Witness ==
    /\ status = "done"
    /\ WrittenNow(1)
    /\ WrittenNow(5)
    /\ WrittenNow(6)
    /\ df # <<>>

==========================================================================
